---- MODULE Spec2Model ----
(***************************************************************************)
(* A model of the OpenMP/TBB lattice of LGCA (src/src/omp_lattice.cpp):    *)
(* the propagate-and-collide step, the body force, the post-processing     *)
(* passes and the mean-velocity reduction of class OMP_Lattice<model_>.    *)
(*                                                                         *)
(* A Bitset is modelled by the set of the indices of its bits that are 1.  *)
(* The model descriptor (ModelDesc), the Bitset and the Lattice base class *)
(* are not part of omp_lattice.cpp; their operators below follow the       *)
(* design document of the repository.                                      *)
(*                                                                         *)
(* Reals: a lattice vector (x, y) is stored as the integer pair            *)
(* <<2*x, y/h>>, h = 1 for HPP and h = sqrt(3)/2 for FHP, which is exact   *)
(* for every sum of lattice vectors. A quotient a / b is kept as the       *)
(* pair <<a, b>>.                                                          *)
(***************************************************************************)
EXTENDS Integers, FiniteSets, Sequences, TLC

VARIABLES
    model,               \* template parameter model_
    ndebug,              \* the build defines NDEBUG
    dim_x, dim_y,        \* m_dim_x, m_dim_y
    r_coarse,            \* m_coarse_graining_radius
    bf_dir,              \* m_bf_dir
    cell_type_cpu,       \* m_cell_type_cpu
    node_state_cpu,      \* m_node_state_cpu      (current buffer S)
    node_state_tmp_cpu,  \* m_node_state_tmp_cpu  (scratch buffer S')
    node_state_out_cpu,  \* m_node_state_out_cpu  (output buffer)
    rnd_cpu,             \* m_rnd_cpu
    cell_density_cpu,    \* m_cell_density_cpu
    cell_momentum_cpu,   \* m_cell_momentum_cpu
    mean_density_cpu,    \* m_mean_density_cpu
    mean_momentum_cpu,   \* m_mean_momentum_cpu
    pc,                  \* "idle", "bf" (inside apply_body_force), "par" (inside the
                         \* parallel region of the step), "red" (inside the loop of
                         \* get_mean_velocity), "aborted"
    forcing,             \* apply_body_force: parameter forcing
    it,                  \* apply_body_force: local it
    reverted_particles,  \* apply_body_force: local reverted_particles
    done,                \* parallel region: per block, the number of its cells whose
                         \* loop body has run
    writes,              \* parallel region: the writes into S', as <<bit, cell>> pairs
    last_op,             \* the operation that returned last
    init_state,          \* m_node_state_cpu after the construction
    pre_state,           \* m_node_state_cpu at the call of the last operation
    steps,               \* number of completed steps
    calls,               \* number of calls of apply_body_force
    mean_velocity,       \* value returned by the last get_mean_velocity()
    posts,               \* number of post_process calls since the node state was
                         \* last written
    rnd_fills,           \* number of calls of m_rnd_cpu.fill_random()
    counter,             \* get_mean_velocity: local counter, shared by the threads
    taken,               \* get_mean_velocity: the iterations n handed to a thread
    reg                  \* get_mean_velocity: per thread, the value of counter it has
                         \* read for a counter++ in progress, or -1

vars == <<model, ndebug, init_state, dim_x, dim_y, r_coarse, bf_dir, cell_type_cpu, node_state_cpu,
          node_state_tmp_cpu, node_state_out_cpu, rnd_cpu, cell_density_cpu,
          cell_momentum_cpu, mean_density_cpu, mean_momentum_cpu, pc, forcing, it,
          reverted_particles, done, writes, last_op, pre_state, steps, calls,
          mean_velocity, posts, rnd_fills, counter, taken, reg>>

\* what the constructor fixes; fill_random is called by the constructor only
config_vars == <<model, ndebug, init_state, dim_x, dim_y, r_coarse, bf_dir, cell_type_cpu,
                 rnd_fills>>
derived_vars == <<cell_density_cpu, cell_momentum_cpu, mean_density_cpu, mean_momentum_cpu>>
bf_vars == <<forcing, it, reverted_particles, calls>>
par_vars == <<done, writes>>
red_vars == <<counter, taken, reg>>

----------------------------------------------------------------------------
(* Bounds of the model *)

\* largest DIM_X and DIM_Y of the step specification, largest DIM_X of the parallel one
MaxDim == 3
\* largest number of cells of the step specification
MaxCells == 9
\* largest number of steps taken from an initial state
MaxSteps == 2
\* largest DIM_X of the body-force and post-processing specifications
MaxSmallDim == 2
\* largest value of the parameter forcing
MaxForcing == 2
\* largest number of calls of apply_body_force
MaxCalls == 1
\* largest coarse graining radius
MaxRadius == 1
\* largest number of post_process calls on one node state
MaxPosts == 2
\* largest number of threads of the OpenMP team
MaxThreads == 2

----------------------------------------------------------------------------
(* Model descriptor *)

Models == {"HPP", "FHP_I", "FHP_II", "FHP_III"}
FHPModels == {"FHP_I", "FHP_II", "FHP_III"}
CellTypes == {"FLUID", "SOLID_NO_SLIP", "SOLID_SLIP"}

\* bits reserved per cell in the node-state Bitsets: the literal 8 of "dir + cell * 8"
STRIDE == 8

NumDirOf(m) ==
    CASE m = "HPP" -> 4
      [] m = "FHP_I" -> 6
      [] m = "FHP_II" -> 7
      [] m = "FHP_III" -> 8

NUM_DIR == NumDirOf(model)
Dirs == 0 .. (NUM_DIR - 1)

\* direction opposite to d; a rest particle has no opposite
INV_DIR(d) ==
    IF model = "HPP" THEN (d + 2) % 4
    ELSE IF d < 6 THEN (d + 3) % 6 ELSE d

\* direction mirrored at the x axis (y -> -y)
MIR_DIR_X(d) ==
    IF model = "HPP" THEN <<0, 3, 2, 1>>[d + 1]
    ELSE <<0, 5, 4, 3, 2, 1, 6, 7>>[d + 1]

\* direction mirrored at the y axis (x -> -x)
MIR_DIR_Y(d) ==
    IF model = "HPP" THEN <<2, 1, 0, 3>>[d + 1]
    ELSE <<3, 2, 1, 0, 5, 4, 6, 7>>[d + 1]

\* twice the x component of the lattice vector of direction d
LATTICE_VEC_X(d) ==
    IF model = "HPP" THEN <<2, 0, -2, 0>>[d + 1]
    ELSE <<2, 1, -1, -2, -1, 1, 0, 0>>[d + 1]

\* the y component of the lattice vector of direction d, in units of h
LATTICE_VEC_Y(d) ==
    IF model = "HPP" THEN <<0, 1, 0, -1>>[d + 1]
    ELSE <<0, 1, 1, 0, -1, -1, 0, 0>>[d + 1]

NumCellsOf(dx, dy) == dx * dy
num_cells == NumCellsOf(dim_x, dim_y)
Cells == 0 .. (num_cells - 1)

\* Lattice: the dimensions of the coarse grid
CoarseDimOf(dim, r) == (dim + 2 * r) \div (2 * r + 1)
coarse_dim_x == CoarseDimOf(dim_x, r_coarse)
coarse_dim_y == CoarseDimOf(dim_y, r_coarse)
num_coarse_cells == coarse_dim_x * coarse_dim_y
CoarseCells == 0 .. (num_coarse_cells - 1)

\* The neighbour-offset tables of the descriptor. Directions: HPP 0 = E, 1 = N,
\* 2 = W, 3 = S; FHP 0 = E, 1 = NE, 2 = NW, 3 = W, 4 = SW, 5 = SE, 6 and 7 at rest.

\* offset to the neighbour in direction d, rows with even index
offset_to_neighbor_even(d) ==
    IF model = "HPP"
    THEN CASE d = 0 -> 1 [] d = 1 -> dim_x [] d = 2 -> -1 [] d = 3 -> -dim_x
    ELSE CASE d = 0 -> 1 [] d = 1 -> dim_x [] d = 2 -> dim_x - 1 [] d = 3 -> -1
           [] d = 4 -> -dim_x - 1 [] d = 5 -> -dim_x [] OTHER -> 0

\* offset to the neighbour in direction d, rows with odd index (shifted east)
offset_to_neighbor_odd(d) ==
    IF model = "HPP"
    THEN CASE d = 0 -> 1 [] d = 1 -> dim_x [] d = 2 -> -1 [] d = 3 -> -dim_x
    ELSE CASE d = 0 -> 1 [] d = 1 -> dim_x + 1 [] d = 2 -> dim_x [] d = 3 -> -1
           [] d = 4 -> -dim_x [] d = 5 -> -dim_x + 1 [] OTHER -> 0

\* correction of a cell on the western boundary: the neighbour is on the eastern one
offset_to_eastern_boundary_even(d) ==
    IF model = "HPP"
    THEN IF d = 2 THEN dim_x ELSE 0
    ELSE IF d \in {2, 3, 4} THEN dim_x ELSE 0

offset_to_eastern_boundary_odd(d) ==
    IF model = "HPP"
    THEN IF d = 2 THEN dim_x ELSE 0
    ELSE IF d = 3 THEN dim_x ELSE 0

\* correction of a cell on the eastern boundary: the neighbour is on the western one
offset_to_western_boundary_even(d) ==
    IF d = 0 THEN -dim_x ELSE 0

offset_to_western_boundary_odd(d) ==
    IF model = "HPP"
    THEN IF d = 0 THEN -dim_x ELSE 0
    ELSE IF d \in {0, 1, 5} THEN -dim_x ELSE 0

\* correction of a cell on the southern boundary: the neighbour is on the northern one
offset_to_northern_boundary_even(d) ==
    IF model = "HPP"
    THEN IF d = 3 THEN num_cells ELSE 0
    ELSE IF d \in {4, 5} THEN num_cells ELSE 0

offset_to_northern_boundary_odd(d) == offset_to_northern_boundary_even(d)

\* correction of a cell on the northern boundary: the neighbour is on the southern one
offset_to_southern_boundary_even(d) ==
    IF model = "HPP"
    THEN IF d = 1 THEN -num_cells ELSE 0
    ELSE IF d \in {1, 2} THEN -num_cells ELSE 0

offset_to_southern_boundary_odd(d) == offset_to_southern_boundary_even(d)

\* the directions of the occupied nodes of a local node_state[] array
Occupied(p) == {d \in DOMAIN p : p[d] = 1}

\* the local array with exactly the directions of D occupied
Pattern(D) == [d \in Dirs |-> IF d \in D THEN 1 ELSE 0]

\* FHP: the six moving directions of D turned by k * 60 degrees
Rotate(D, k) == {(d + k) % 6 : d \in {e \in D : e < 6}} \cup {e \in D : e >= 6}

\* ModelDesc::collide: the collision LUT. HPP: a head-on pair turns by 90 degrees.
\* FHP: a head-on pair turns by 60 degrees, to the left or to the right with the
\* random bit; three particles at 120 degrees turn by 60 degrees; rest particles
\* are spectators. Every other pattern is unchanged.
collide(node_state, node_state_tmp, rnd) ==
    LET D == Occupied(node_state)
        M == {d \in D : d < 6}
    IN  IF model = "HPP"
        THEN IF D = {0, 2} THEN Pattern({1, 3})
             ELSE IF D = {1, 3} THEN Pattern({0, 2})
             ELSE node_state_tmp
        ELSE IF \E i \in 0..2 : M = {i, i + 3}
             THEN Pattern(Rotate(D, IF rnd = 1 THEN 1 ELSE 5))
             ELSE IF M = {0, 2, 4} \/ M = {1, 3, 5}
             THEN Pattern(Rotate(D, 1))
             ELSE node_state_tmp

\* ModelDesc::bounce_back: BB_LUT, the bits permuted by INV_DIR
bounce_back(node_state, node_state_tmp) ==
    [d \in Dirs |-> node_state[INV_DIR(d)]]

\* ModelDesc::bounce_forward_x: BF_X_LUT, the bits permuted by MIR_DIR_X
bounce_forward_x(node_state, node_state_tmp) ==
    [d \in Dirs |-> node_state[MIR_DIR_X(d)]]

\* ModelDesc::bounce_forward_y: BF_Y_LUT, the bits permuted by MIR_DIR_Y
bounce_forward_y(node_state, node_state_tmp) ==
    [d \in Dirs |-> node_state[MIR_DIR_Y(d)]]

\* Bitset: operator[] reads one bit
Bit(B, i) == IF i \in B THEN 1 ELSE 0

\* Bitset: the bit indices of block number b (one block holds the STRIDE bits of a cell)
BlockBits(b) == (b * STRIDE) .. (b * STRIDE + STRIDE - 1)

----------------------------------------------------------------------------
(* Lattice geometry of the initial states: the torus in coordinates *)

\* the cell at column x and row y of the periodic grid
CellAt(x, y) == ((x + dim_x) % dim_x) + ((y + dim_y) % dim_y) * dim_x

\* the neighbour of cell c in direction d on the periodic grid; the odd rows of the
\* triangular lattice are shifted half a cell to the east
NeighborOf(c, d) ==
    LET x == c % dim_x
        y == c \div dim_x
        dx == IF model = "HPP" THEN <<1, 0, -1, 0>>[d + 1]
              ELSE IF y % 2 = 0 THEN <<1, 0, -1, -1, -1, 0, 0, 0>>[d + 1]
              ELSE <<1, 1, 0, -1, 0, 1, 0, 0>>[d + 1]
        dy == IF model = "HPP" THEN <<0, 1, 0, -1>>[d + 1]
              ELSE <<0, 1, 1, 0, -1, -1, 0, 0>>[d + 1]
    IN  CellAt(x + dx, y + dy)

\* the node state whose particles all arrive at cell c0 in the next propagation,
\* one from each direction of D
FocusState(c0, D) == {d + NeighborOf(c0, INV_DIR(d)) * STRIDE : d \in D}

\* the node state whose particles all sit in cell c0, in the directions of D
CellState(c0, D) == {d + c0 * STRIDE : d \in D}

----------------------------------------------------------------------------
(* collide_and_propagate: the loop body of one cell *)

pos_y(cell) == cell \div dim_x

on_eastern_boundary(cell) == (cell + 1) % dim_x = 0
\* variant: the first cell of the northern row is missed
on_northern_boundary_late(cell) == cell > (num_cells - dim_x)
on_northern_boundary(cell) == cell >= (num_cells - dim_x)
on_western_boundary(cell) == cell % dim_x = 0
\* variant: the first cell of the second row is taken for a southern one
on_southern_boundary_wide(cell) == cell <= dim_x
on_southern_boundary(cell) == cell < dim_x

\* the memory offset of the propagation step for direction dir of the cell
Offset(cell, dir) ==
    LET inv_dir == INV_DIR(dir)
    IN  IF pos_y(cell) % 2 = 0
        THEN offset_to_neighbor_even(inv_dir)
             + (IF on_eastern_boundary(cell) THEN offset_to_western_boundary_even(inv_dir) ELSE 0)
             + (IF on_northern_boundary(cell) THEN offset_to_southern_boundary_even(inv_dir) ELSE 0)
             + (IF on_western_boundary(cell) THEN offset_to_eastern_boundary_even(inv_dir) ELSE 0)
             + (IF on_southern_boundary(cell) THEN offset_to_northern_boundary_even(inv_dir) ELSE 0)
        ELSE offset_to_neighbor_odd(inv_dir)
             + (IF on_eastern_boundary(cell) THEN offset_to_western_boundary_odd(inv_dir) ELSE 0)
             + (IF on_northern_boundary(cell) THEN offset_to_southern_boundary_odd(inv_dir) ELSE 0)
             + (IF on_western_boundary(cell) THEN offset_to_eastern_boundary_odd(inv_dir) ELSE 0)
             + (IF on_southern_boundary(cell) THEN offset_to_northern_boundary_odd(inv_dir) ELSE 0)

\* the bit of the buffer read by the gather for direction dir of the cell
SourceBit(cell, dir) == dir + (cell + Offset(cell, dir)) * 8

\* propagation: node_state[] of the cell, pulled from the buffer S
Gather(S, cell) == [dir \in Dirs |-> Bit(S, SourceBit(cell, dir))]

\* variant: the case SOLID_NO_SLIP has no break and falls through to SOLID_SLIP
Collision_nobreak(cell, node_state) ==
    LET node_state_tmp == node_state
        cell_type == cell_type_cpu[cell]
        slip(tmp) ==
            LET tmp_x == IF on_northern_boundary(cell) \/ on_southern_boundary(cell)
                         THEN bounce_forward_x(node_state, tmp)
                         ELSE tmp
            IN  IF on_eastern_boundary(cell) \/ on_western_boundary(cell)
                THEN bounce_forward_y(node_state, tmp_x)
                ELSE tmp_x
    IN  CASE cell_type = "FLUID" ->
               collide(node_state, node_state_tmp, Bit(rnd_cpu, cell))
          [] cell_type = "SOLID_NO_SLIP" ->
               slip(bounce_back(node_state, node_state_tmp))
          [] cell_type = "SOLID_SLIP" ->
               slip(node_state_tmp)

\* variant: the case FLUID has no break and falls through to SOLID_NO_SLIP
Collision_fallthrough(cell, node_state) ==
    LET node_state_tmp == node_state
        cell_type == cell_type_cpu[cell]
    IN  CASE cell_type \in {"FLUID", "SOLID_NO_SLIP"} ->
               bounce_back(node_state, node_state_tmp)
          [] cell_type = "SOLID_SLIP" ->
               LET tmp_x == IF on_northern_boundary(cell) \/ on_southern_boundary(cell)
                            THEN bounce_forward_x(node_state, node_state_tmp)
                            ELSE node_state_tmp
               IN  IF on_eastern_boundary(cell) \/ on_western_boundary(cell)
                   THEN bounce_forward_y(node_state, tmp_x)
                   ELSE tmp_x

\* collision: node_state_tmp[] of the cell from its node_state[]
Collision(cell, node_state) ==
    LET node_state_tmp == node_state
        cell_type == cell_type_cpu[cell]
    IN  CASE cell_type = "FLUID" ->
               collide(node_state, node_state_tmp, Bit(rnd_cpu, cell))
          [] cell_type = "SOLID_NO_SLIP" ->
               bounce_back(node_state, node_state_tmp)
          [] cell_type = "SOLID_SLIP" ->
               LET tmp_x == IF on_northern_boundary(cell) \/ on_southern_boundary(cell)
                            THEN bounce_forward_x(node_state, node_state_tmp)
                            ELSE node_state_tmp
               IN  IF on_eastern_boundary(cell) \/ on_western_boundary(cell)
                   THEN bounce_forward_y(node_state, tmp_x)
                   ELSE tmp_x

\* the bits of the buffer written for the cell
TargetBits(cell) == {dir + cell * 8 : dir \in Dirs}

\* the buffer T after node_state_tmp[] of the cell has been written back
WriteBack(T, cell, node_state_tmp) ==
    (T \ TargetBits(cell)) \cup {dir + cell * 8 : dir \in Occupied(node_state_tmp)}

\* the scratch buffer T after the loop body has run for the cell on the buffer S
CellKernel(S, T, cell) == WriteBack(T, cell, Collision(cell, Gather(S, cell)))

\* the scratch buffer T after the loop body has run for every cell, each writing
\* its own bits
Kernel(S, T) ==
    (T \ UNION {TargetBits(cell) : cell \in Cells})
        \cup UNION {CellKernel(S, {}, cell) : cell \in Cells}

\* the debug check of the domain dimensions
InvalidDimY == dim_y % 2 # 0 /\ model \in FHPModels

\* the debug check is compiled in and fails
DebugCheckFails == ~ndebug /\ InvalidDimY

----------------------------------------------------------------------------
(* collide_and_propagate as one sequential operation *)

\* the dimensions are invalid: abort()
collide_and_propagate_abort ==
    /\ pc = "idle"
    /\ steps < MaxSteps
    /\ DebugCheckFails
    /\ pc' = "aborted"
    /\ UNCHANGED <<config_vars, red_vars, derived_vars, bf_vars, par_vars, node_state_cpu,
                   node_state_tmp_cpu, node_state_out_cpu, rnd_cpu, last_op, pre_state, steps,
                   mean_velocity, posts>>

\* the parallel loop over all cells, then the exchange of the two buffers
collide_and_propagate ==
    /\ pc = "idle"
    /\ steps < MaxSteps
    /\ ~DebugCheckFails
    /\ node_state_cpu' = Kernel(node_state_cpu, node_state_tmp_cpu)
    /\ node_state_tmp_cpu' = node_state_cpu
    /\ pre_state' = node_state_cpu
    /\ last_op' = "collide_and_propagate"
    /\ steps' = steps + 1
    /\ posts' = 0
    /\ UNCHANGED <<config_vars, red_vars, derived_vars, bf_vars, par_vars, node_state_out_cpu,
                   rnd_cpu, pc, mean_velocity>>

----------------------------------------------------------------------------
(* Initial states *)

\* the arrays allocated by allocate_memory() are not initialized: every entry holds
\* the value g
InitDerived(g) ==
    /\ cell_density_cpu = [c \in Cells |-> g]
    /\ cell_momentum_cpu = [c \in Cells |-> <<g, g>>]
    /\ mean_density_cpu = [C \in CoarseCells |-> <<g, 1>>]
    /\ mean_momentum_cpu = [C \in CoarseCells |-> <<g, g, 1>>]
    /\ mean_velocity = <<0, 0, 0>>

InitControl ==
    /\ pc = "idle"
    /\ forcing = 0
    /\ it = 0
    /\ reverted_particles = 0
    /\ done = <<>>
    /\ writes = {}
    /\ last_op = "constructor"
    /\ pre_state = node_state_cpu
    /\ init_state = node_state_cpu
    /\ steps = 0
    /\ calls = 0
    /\ posts = 0
    /\ rnd_fills = 1
    /\ counter = 0
    /\ taken = {}
    /\ reg = <<>>

\* step specification: one cell c0 of any type in a fluid lattice, all particles on
\* their way to c0
InitStep ==
    /\ model \in Models
    /\ ndebug = FALSE
    /\ dim_x \in 1..MaxDim
    /\ dim_y \in 1..MaxDim
    /\ dim_x * dim_y <= MaxCells
    /\ r_coarse = 0
    /\ bf_dir = "x"
    /\ \E c0 \in Cells, t \in CellTypes, D \in SUBSET Dirs :
          /\ cell_type_cpu = [c \in Cells |-> IF c = c0 THEN t ELSE "FLUID"]
          /\ node_state_cpu = FocusState(c0, D)
          /\ rnd_cpu \in (IF t = "FLUID" THEN {{}, Cells} ELSE {Cells})
    /\ node_state_tmp_cpu = {}
    /\ node_state_out_cpu = node_state_cpu
    /\ InitDerived(0)
    /\ InitControl

NextStep ==
    \/ collide_and_propagate_abort
    \/ collide_and_propagate

SpecStep == InitStep /\ [][NextStep]_vars

----------------------------------------------------------------------------
(* apply_body_force *)

\* Bitset: operator() reads one block
BlockRead(B, b) == [i \in 0 .. (STRIDE - 1) |-> Bit(B, b * STRIDE + i)]

\* Bitset: operator() assigns one block
BlockWrite(B, b, block) ==
    (B \ BlockBits(b)) \cup {b * STRIDE + i : i \in Occupied(block)}

\* variant: the node the particle leaves is not cleared
ForceTmp_keep(node_state) ==
    LET node_state_tmp == node_state
    IN  IF model = "HPP"
        THEN IF bf_dir = "x" /\ node_state[0] = 0 /\ node_state[2] = 1
             THEN [node_state_tmp EXCEPT ![0] = 1]
             ELSE IF bf_dir = "y" /\ node_state[1] = 1 /\ node_state[3] = 0
             THEN [node_state_tmp EXCEPT ![3] = 1]
             ELSE node_state_tmp
        ELSE IF bf_dir = "x" /\ node_state[0] = 0 /\ node_state[3] = 1
             THEN [node_state_tmp EXCEPT ![0] = 1]
             ELSE IF bf_dir = "y"
             THEN LET tmp_1 == IF node_state[1] = 1 /\ node_state[5] = 0
                               THEN [node_state_tmp EXCEPT ![5] = 1]
                               ELSE node_state_tmp
                  IN  IF node_state[2] = 1 /\ node_state[4] = 0
                      THEN [tmp_1 EXCEPT ![4] = 1]
                      ELSE tmp_1
             ELSE node_state_tmp

\* node_state_tmp of the sampled fluid cell whose bits are node_state
ForceTmp(node_state) ==
    LET node_state_tmp == node_state
    IN  IF model = "HPP"
        THEN IF bf_dir = "x" /\ node_state[0] = 0 /\ node_state[2] = 1
             THEN [node_state_tmp EXCEPT ![0] = 1, ![2] = 0]
             ELSE IF bf_dir = "y" /\ node_state[1] = 1 /\ node_state[3] = 0
             THEN [node_state_tmp EXCEPT ![1] = 0, ![3] = 1]
             ELSE node_state_tmp
        ELSE IF bf_dir = "x" /\ node_state[0] = 0 /\ node_state[3] = 1
             THEN [node_state_tmp EXCEPT ![0] = 1, ![3] = 0]
             ELSE IF bf_dir = "y"
             THEN LET tmp_1 == IF node_state[1] = 1 /\ node_state[5] = 0
                               THEN [node_state_tmp EXCEPT ![1] = 0, ![5] = 1]
                               ELSE node_state_tmp
                  IN  IF node_state[2] = 1 /\ node_state[4] = 0
                      THEN [tmp_1 EXCEPT ![2] = 0, ![4] = 1]
                      ELSE tmp_1
             ELSE node_state_tmp

\* the increments of reverted_particles for the sampled fluid cell
ForceCount(node_state) ==
    IF model = "HPP"
    THEN IF bf_dir = "x" /\ node_state[0] = 0 /\ node_state[2] = 1 THEN 1
         ELSE IF bf_dir = "y" /\ node_state[1] = 1 /\ node_state[3] = 0 THEN 1
         ELSE 0
    ELSE IF bf_dir = "x" /\ node_state[0] = 0 /\ node_state[3] = 1 THEN 1
         ELSE IF bf_dir = "y"
         THEN (IF node_state[1] = 1 /\ node_state[5] = 0 THEN 1 ELSE 0)
              + (IF node_state[2] = 1 /\ node_state[4] = 0 THEN 1 ELSE 0)
         ELSE 0

\* the maximum number of iterations
it_max == 2 * num_cells

\* variant: the iteration bound is tested with <=
ForceContinue_late(reverted, iter) == (reverted < forcing) /\ (iter <= it_max)

\* the condition of the do-while loop
ForceContinue(reverted, iter) == (reverted < forcing) /\ (iter < it_max)

\* the call: the locals are set and the loop is entered
apply_body_force_call ==
    /\ pc = "idle"
    /\ calls < MaxCalls
    /\ \E f \in 0..MaxForcing : forcing' = f
    /\ calls' = calls + 1
    /\ it' = 0
    /\ reverted_particles' = 0
    /\ pre_state' = node_state_cpu
    /\ pc' = "bf"
    /\ posts' = 0
    /\ UNCHANGED <<config_vars, red_vars, derived_vars, par_vars, node_state_cpu, node_state_tmp_cpu,
                   node_state_out_cpu, rnd_cpu, last_op, steps, mean_velocity>>

\* variant: the type of the sampled cell is not tested
ForceApplies_any(cell) == TRUE

\* body forces are applied to fluid cells only
ForceApplies(cell) == cell_type_cpu[cell] = "FLUID"

\* one iteration of the loop on the cell rand() % m_num_cells, with the test of the
\* loop condition that follows it
apply_body_force_iterate ==
    /\ pc = "bf"
    /\ \E cell \in Cells :
          LET node_state == BlockRead(node_state_cpu, cell)
              fluid == ForceApplies(cell)
              reverted == IF fluid THEN reverted_particles + ForceCount(node_state)
                          ELSE reverted_particles
          IN  /\ it' = it + 1
              /\ reverted_particles' = reverted
              /\ node_state_cpu' = IF fluid
                                   THEN BlockWrite(node_state_cpu, cell, ForceTmp(node_state))
                                   ELSE node_state_cpu
              /\ IF ForceContinue(reverted, it + 1)
                 THEN pc' = "bf" /\ last_op' = last_op
                 ELSE pc' = "idle" /\ last_op' = "apply_body_force"
    /\ UNCHANGED <<config_vars, red_vars, derived_vars, par_vars, node_state_tmp_cpu,
                   node_state_out_cpu, rnd_cpu, forcing, calls, pre_state, steps,
                   mean_velocity, posts>>

\* body-force specification: the particles of the first and of the last cell in any
\* pattern, one of the two, c0, of any type in a fluid lattice or in a lattice of
\* its type
InitForce ==
    /\ model \in Models
    /\ ndebug = FALSE
    /\ dim_x \in 1..MaxSmallDim
    /\ dim_y \in {1, 2}
    /\ r_coarse = 0
    /\ bf_dir \in {"x", "y"}
    /\ \E c0 \in {0, num_cells - 1}, t \in CellTypes, D \in SUBSET Dirs :
       \E U \in {{c0}, Cells} :
          /\ cell_type_cpu = [c \in Cells |-> IF c \in U THEN t ELSE "FLUID"]
          /\ node_state_cpu = CellState(c0, D) \cup CellState(num_cells - 1 - c0, D)
    /\ node_state_tmp_cpu = {}
    /\ node_state_out_cpu = node_state_cpu
    /\ rnd_cpu = {}
    /\ InitDerived(0)
    /\ InitControl

NextForce ==
    \/ apply_body_force_call
    \/ apply_body_force_iterate

SpecForce == InitForce /\ [][NextForce]_vars

----------------------------------------------------------------------------
(* collide_and_propagate with its parallel region: tbb::parallel_for hands every    *)
(* block of the range [0, num_blocks) to one worker; the workers run concurrently,  *)
(* each going through the cells of its block in order.                              *)

\* Bitset::BITS_PER_BLOCK
BITS_PER_BLOCK == 8

num_blocks == ((num_cells - 1) \div BITS_PER_BLOCK) + 1
Blocks == 0 .. (num_blocks - 1)

\* the cell a worker of the block handles next
NextCell(block) == block * BITS_PER_BLOCK + done[block]

\* the loop over the cells of the block has ended
BlockDone(block) ==
    \/ ~(NextCell(block) < (block + 1) * BITS_PER_BLOCK)
    \/ NextCell(block) >= num_cells

\* variant: the gather reads the scratch buffer
WorkerScratch_stale(S, T, cell) == CellKernel(T, T, cell)

\* the scratch buffer after a worker has run the loop body for the cell
WorkerScratch(S, T, cell) == CellKernel(S, T, cell)

\* the parallel region is entered
collide_and_propagate_begin ==
    /\ pc = "idle"
    /\ steps < MaxSteps
    /\ ~DebugCheckFails
    /\ pc' = "par"
    /\ done' = [block \in Blocks |-> 0]
    /\ writes' = {}
    /\ pre_state' = node_state_cpu
    /\ UNCHANGED <<config_vars, red_vars, derived_vars, bf_vars, node_state_cpu, node_state_tmp_cpu,
                   node_state_out_cpu, rnd_cpu, last_op, steps, mean_velocity, posts>>

\* a worker runs the loop body for the next cell of its block
collide_and_propagate_cell ==
    /\ pc = "par"
    /\ \E block \in Blocks :
          /\ ~BlockDone(block)
          /\ LET cell == NextCell(block)
             IN  /\ node_state_tmp_cpu' = WorkerScratch(node_state_cpu, node_state_tmp_cpu, cell)
                 /\ writes' = writes \cup {<<bit, cell>> : bit \in TargetBits(cell)}
          /\ done' = [done EXCEPT ![block] = @ + 1]
    /\ UNCHANGED <<config_vars, red_vars, derived_vars, bf_vars, node_state_cpu, node_state_out_cpu,
                   rnd_cpu, pc, last_op, pre_state, steps, mean_velocity, posts>>

\* variant: the scratch pointer is not set to the old current buffer, both names
\* denote the buffer just written
collide_and_propagate_end_alias ==
    /\ pc = "par"
    /\ \A block \in Blocks : BlockDone(block)
    /\ node_state_cpu' = node_state_tmp_cpu
    /\ node_state_tmp_cpu' = node_state_tmp_cpu
    /\ pc' = "idle"
    /\ last_op' = "collide_and_propagate"
    /\ steps' = steps + 1
    /\ posts' = 0
    /\ UNCHANGED <<config_vars, red_vars, derived_vars, bf_vars, par_vars, node_state_out_cpu,
                   rnd_cpu, pre_state, mean_velocity>>

\* all workers have finished: the two buffers are exchanged
collide_and_propagate_end ==
    /\ pc = "par"
    /\ \A block \in Blocks : BlockDone(block)
    /\ node_state_cpu' = node_state_tmp_cpu
    /\ node_state_tmp_cpu' = node_state_cpu
    /\ pc' = "idle"
    /\ last_op' = "collide_and_propagate"
    /\ steps' = steps + 1
    /\ posts' = 0
    /\ UNCHANGED <<config_vars, red_vars, derived_vars, bf_vars, par_vars, node_state_out_cpu,
                   rnd_cpu, pre_state, mean_velocity>>

\* the local arrays with at most one empty node
DensePatterns == {D \in SUBSET Dirs : Cardinality(D) >= NUM_DIR - 1}

\* parallel specification: one cell c0 of any type in a fluid lattice, particles from
\* all or all but one direction on their way to c0
InitPar ==
    /\ model \in Models
    /\ ndebug = FALSE
    /\ dim_x \in 1..MaxDim
    /\ dim_y \in {1, 2, 4}
    /\ r_coarse = 0
    /\ bf_dir = "x"
    /\ \E c0 \in Cells, t \in CellTypes, D \in DensePatterns :
          /\ cell_type_cpu = [c \in Cells |-> IF c = c0 THEN t ELSE "FLUID"]
          /\ node_state_cpu = FocusState(c0, D)
    /\ node_state_tmp_cpu = {}
    /\ node_state_out_cpu = node_state_cpu
    /\ rnd_cpu \in {{}, Cells}
    /\ InitDerived(0)
    /\ InitControl

NextPar ==
    \/ collide_and_propagate_abort
    \/ collide_and_propagate_begin
    \/ collide_and_propagate_cell
    \/ collide_and_propagate_end

SpecPar == InitPar /\ [][NextPar]_vars

----------------------------------------------------------------------------
(* post_process and get_mean_velocity *)

\* the sum of f[0], ..., f[n - 1]
RECURSIVE SumTo(_, _)
SumTo(f, n) == IF n = 0 THEN 0 ELSE f[n - 1] + SumTo(f, n - 1)

\* variant: the cells are taken to be packed, NUM_DIR bits apart
OutState_packed(B, cell) == [dir \in Dirs |-> Bit(B, dir + cell * NUM_DIR)]

\* the node states of the cell read by cell_post_process from the buffer B
OutState(B, cell) == [dir \in Dirs |-> Bit(B, dir + cell * 8)]

\* cell_post_process: cell_density of the cell
CellDensity(B, cell) == SumTo(OutState(B, cell), NUM_DIR)

\* cell_post_process: cell_momentum_x and cell_momentum_y of the cell
CellMomentum(B, cell) ==
    LET node_state == OutState(B, cell)
    IN  <<SumTo([dir \in Dirs |-> node_state[dir] * LATTICE_VEC_X(dir)], NUM_DIR),
          SumTo([dir \in Dirs |-> node_state[dir] * LATTICE_VEC_Y(dir)], NUM_DIR)>>

\* the density array written by cell_post_process
CellPostDensity(B) == [cell \in Cells |-> CellDensity(B, cell)]

\* the momentum array written by cell_post_process
CellPostMomentum(B) == [cell \in Cells |-> CellMomentum(B, cell)]

\* mean_post_process: the cell in the bottom left corner of the coarse cell
CornerCell(coarse_cell) ==
    (coarse_cell % coarse_dim_x) * (2 * r_coarse)
        + (coarse_cell \div coarse_dim_x) * (2 * r_coarse) * dim_x

Abs(i) == IF i < 0 THEN -i ELSE i

\* mean_post_process: the index of the coarse graining neighbor cell at <<x, y>>
NeighborIdx(coarse_cell, x, y) == CornerCell(coarse_cell) + y * dim_x + x

\* mean_post_process: the coarse graining neighbor cell at <<x, y>> is valid
NeighborValid(coarse_cell, x, y) ==
    LET pos_x == CornerCell(coarse_cell) % dim_x
        neighbor_idx == NeighborIdx(coarse_cell, x, y)
        pos_x_neighbor == neighbor_idx % dim_x
    IN  /\ neighbor_idx >= 0
        /\ neighbor_idx < num_cells
        /\ Abs(pos_x_neighbor - pos_x) <= r_coarse

\* mean_post_process: the two loops over y and x, summing val[neighbor_idx] over the
\* valid neighbor cells
WindowSum(val, coarse_cell) ==
    SumTo([y \in 0 .. 2 * r_coarse |->
              SumTo([x \in 0 .. 2 * r_coarse |->
                        IF NeighborValid(coarse_cell, x, y)
                        THEN val[NeighborIdx(coarse_cell, x, y)]
                        ELSE 0],
                    2 * r_coarse + 1)],
          2 * r_coarse + 1)

\* mean_post_process: the number of existing coarse graining neighbor cells
n_exist_neighbors(coarse_cell) == WindowSum([cell \in Cells |-> 1], coarse_cell)

\* mean_post_process: the quotient written to m_mean_density_cpu
MeanDensity(density, coarse_cell) ==
    <<WindowSum(density, coarse_cell), n_exist_neighbors(coarse_cell)>>

\* mean_post_process: the two quotients written to m_mean_momentum_cpu
MeanMomentum(momentum, coarse_cell) ==
    <<WindowSum([cell \in Cells |-> momentum[cell][1]], coarse_cell),
      WindowSum([cell \in Cells |-> momentum[cell][2]], coarse_cell),
      n_exist_neighbors(coarse_cell)>>

\* variant: the pass clears the buffer it has read
CellPostCurrent_clear(S) == {}

\* the current buffer after cell_post_process
CellPostCurrent(S) == S

\* variant: cell_density is not reset, it accumulates onto the stored density
post_process_accumulate ==
    /\ pc = "idle"
    /\ posts < MaxPosts
    /\ posts' = posts + 1
    /\ LET density == [cell \in Cells |->
                          cell_density_cpu[cell] + CellDensity(node_state_out_cpu, cell)]
           momentum == CellPostMomentum(node_state_out_cpu)
       IN  /\ cell_density_cpu' = density
           /\ cell_momentum_cpu' = momentum
           /\ mean_density_cpu' = [C \in CoarseCells |-> MeanDensity(density, C)]
           /\ mean_momentum_cpu' = [C \in CoarseCells |-> MeanMomentum(momentum, C)]
    /\ node_state_cpu' = CellPostCurrent(node_state_cpu)
    /\ pre_state' = node_state_cpu
    /\ last_op' = "post_process"
    /\ UNCHANGED <<config_vars, red_vars, bf_vars, par_vars, node_state_tmp_cpu, node_state_out_cpu,
                   rnd_cpu, pc, steps, mean_velocity>>

\* post_process: cell_post_process, then mean_post_process
post_process ==
    /\ pc = "idle"
    /\ posts < MaxPosts
    /\ posts' = posts + 1
    /\ LET density == CellPostDensity(node_state_out_cpu)
           momentum == CellPostMomentum(node_state_out_cpu)
       IN  /\ cell_density_cpu' = density
           /\ cell_momentum_cpu' = momentum
           /\ mean_density_cpu' = [C \in CoarseCells |-> MeanDensity(density, C)]
           /\ mean_momentum_cpu' = [C \in CoarseCells |-> MeanMomentum(momentum, C)]
    /\ node_state_cpu' = CellPostCurrent(node_state_cpu)
    /\ pre_state' = node_state_cpu
    /\ last_op' = "post_process"
    /\ UNCHANGED <<config_vars, red_vars, bf_vars, par_vars, node_state_tmp_cpu, node_state_out_cpu,
                   rnd_cpu, pc, steps, mean_velocity>>

\* get_mean_velocity: the fluid cells, which the loop counts
FluidCells == {n \in Cells : cell_type_cpu[n] = "FLUID"}

\* get_mean_velocity: sum_x_vel and sum_y_vel, both times 840, the least common
\* multiple of the densities 1, ..., 8
SumVel ==
    LET Vel(n, k) == IF cell_type_cpu[n] = "FLUID" /\ cell_density_cpu[n] > 0
                     THEN cell_momentum_cpu[n][k] * (840 \div cell_density_cpu[n])
                     ELSE 0
    IN  <<SumTo([n \in Cells |-> Vel(n, 1)], num_cells),
          SumTo([n \in Cells |-> Vel(n, 2)], num_cells)>>

\* get_mean_velocity: the values counter can hold after the loop. counter++ is not
\* part of the reduction clause: concurrent increments may be lost.
Counters ==
    IF FluidCells = {} THEN {0} ELSE 1 .. Cardinality(FluidCells)

\* get_mean_velocity: returns the two quotients <<sum_x_vel, sum_y_vel>> / counter
get_mean_velocity ==
    /\ pc = "idle"
    /\ LET sum_vel == SumVel
       IN  \E count \in Counters : mean_velocity' = <<sum_vel[1], sum_vel[2], count>>
    /\ pre_state' = node_state_cpu
    /\ last_op' = "get_mean_velocity"
    /\ UNCHANGED <<config_vars, red_vars, derived_vars, bf_vars, par_vars, node_state_cpu,
                   node_state_tmp_cpu, node_state_out_cpu, rnd_cpu, pc, steps, posts>>

----------------------------------------------------------------------------
(* get_mean_velocity: the threads of the omp parallel for *)

\* the threads of the team
Threads == DOMAIN reg

\* the loop is entered: counter is 0 and a team of threads is formed
get_mean_velocity_begin ==
    /\ pc = "idle"
    /\ pc' = "red"
    /\ counter' = 0
    /\ taken' = {}
    /\ \E num_threads \in 1 .. MaxThreads : reg' = [t \in 1 .. num_threads |-> -1]
    /\ pre_state' = node_state_cpu
    /\ UNCHANGED <<config_vars, derived_vars, bf_vars, par_vars, node_state_cpu,
                   node_state_tmp_cpu, node_state_out_cpu, rnd_cpu, last_op, steps,
                   mean_velocity, posts>>

\* a thread starts an iteration n of the loop: for a fluid cell it reads counter,
\* the first half of counter++
get_mean_velocity_read ==
    /\ pc = "red"
    /\ \E t \in Threads, n \in Cells \ taken :
          /\ reg[t] = -1
          /\ taken' = taken \cup {n}
          /\ reg' = IF cell_type_cpu[n] = "FLUID" THEN [reg EXCEPT ![t] = counter] ELSE reg
    /\ UNCHANGED <<config_vars, derived_vars, bf_vars, par_vars, node_state_cpu,
                   node_state_tmp_cpu, node_state_out_cpu, rnd_cpu, pc, last_op, pre_state,
                   steps, mean_velocity, posts, counter>>

\* the value a thread stores into counter, the second half of counter++
CounterAfter(t) == reg[t] + 1

\* a thread writes counter; the sums are private to the thread (reduction clause)
get_mean_velocity_write ==
    /\ pc = "red"
    /\ \E t \in Threads :
          /\ reg[t] # -1
          /\ counter' = CounterAfter(t)
          /\ reg' = [reg EXCEPT ![t] = -1]
    /\ UNCHANGED <<config_vars, derived_vars, bf_vars, par_vars, node_state_cpu,
                   node_state_tmp_cpu, node_state_out_cpu, rnd_cpu, pc, last_op, pre_state,
                   steps, mean_velocity, posts, taken>>

\* all iterations are done: the private sums are added up and divided by counter
get_mean_velocity_end ==
    /\ pc = "red"
    /\ taken = Cells
    /\ \A t \in Threads : reg[t] = -1
    /\ LET sum_vel == SumVel
       IN  mean_velocity' = <<sum_vel[1], sum_vel[2], counter>>
    /\ pc' = "idle"
    /\ last_op' = "get_mean_velocity"
    /\ UNCHANGED <<config_vars, red_vars, derived_vars, bf_vars, par_vars, node_state_cpu,
                   node_state_tmp_cpu, node_state_out_cpu, rnd_cpu, pre_state, steps, posts>>

\* reduction specification: a lattice of fluid and solid cells, the particles in cell 0
InitReduce ==
    /\ model \in {"HPP", "FHP_I"}
    /\ ndebug = FALSE
    /\ dim_x \in 1..MaxSmallDim
    /\ dim_y \in {1, 2}
    /\ r_coarse = 0
    /\ bf_dir = "x"
    /\ cell_type_cpu \in [Cells -> {"FLUID", "SOLID_NO_SLIP"}]
    /\ \E D \in {{}, {0}} : node_state_cpu = CellState(0, D)
    /\ node_state_tmp_cpu = {}
    /\ node_state_out_cpu = node_state_cpu
    /\ rnd_cpu = Cells
    /\ InitDerived(0)
    /\ InitControl

NextReduce ==
    \/ post_process
    \/ get_mean_velocity_begin
    \/ get_mean_velocity_read
    \/ get_mean_velocity_write
    \/ get_mean_velocity_end

SpecReduce == InitReduce /\ [][NextReduce]_vars

----------------------------------------------------------------------------
(* Post-processing: post_process and get_mean_velocity in any order *)

\* the local arrays with at most one occupied node or with no empty node
SomePatterns ==
    {D \in SUBSET Dirs : Cardinality(D) <= 1 \/ D = Dirs}

\* post-processing specification: one cell c0, fluid or solid, in a fluid lattice, the
\* particles in c0 or on their way to c0
InitPost ==
    /\ model \in Models
    /\ ndebug = FALSE
    /\ dim_x \in 1..MaxSmallDim
    /\ dim_y \in {1, 2}
    /\ r_coarse \in 0..MaxRadius
    /\ bf_dir = "x"
    /\ \E c0 \in Cells, t \in {"FLUID", "SOLID_NO_SLIP"}, D \in SomePatterns :
          /\ cell_type_cpu = [c \in Cells |-> IF c = c0 THEN t ELSE "FLUID"]
          /\ node_state_cpu \in {FocusState(c0, D), CellState(c0, D)}
    /\ node_state_tmp_cpu = {}
    /\ node_state_out_cpu = node_state_cpu
    /\ rnd_cpu = Cells
    /\ \E g \in {0, 1} : InitDerived(g)
    /\ InitControl

NextPost ==
    \/ post_process
    \/ get_mean_velocity

SpecPost == InitPost /\ [][NextPost]_vars

----------------------------------------------------------------------------
(* Post-processing on the larger lattices *)

\* coarse-graining specification: a fluid lattice, the particles in one cell c0
InitCoarse ==
    /\ model \in Models
    /\ ndebug = FALSE
    /\ dim_x \in 1..MaxDim
    /\ dim_y \in 1..MaxDim
    /\ dim_x * dim_y <= MaxCells
    /\ r_coarse \in 0..MaxRadius
    /\ bf_dir = "x"
    /\ cell_type_cpu = [c \in Cells |-> "FLUID"]
    /\ \E c0 \in Cells, D \in SomePatterns : node_state_cpu = CellState(c0, D)
    /\ node_state_tmp_cpu = {}
    /\ node_state_out_cpu = node_state_cpu
    /\ rnd_cpu = Cells
    /\ \E g \in {0, 1} : InitDerived(g)
    /\ InitControl

NextCoarse == post_process

SpecCoarse == InitCoarse /\ [][NextCoarse]_vars

----------------------------------------------------------------------------
(* The step in both builds, with and without NDEBUG *)

\* build specification: a fluid lattice of any dimensions, the particles on their
\* way to one cell c0
InitBuild ==
    /\ model \in Models
    /\ ndebug \in BOOLEAN
    /\ dim_x \in 1..MaxDim
    /\ dim_y \in 1..MaxDim
    /\ dim_x * dim_y <= MaxCells
    /\ r_coarse = 0
    /\ bf_dir = "x"
    /\ cell_type_cpu = [c \in Cells |-> "FLUID"]
    /\ \E c0 \in Cells, D \in SomePatterns : node_state_cpu = FocusState(c0, D)
    /\ node_state_tmp_cpu = {}
    /\ node_state_out_cpu = node_state_cpu
    /\ rnd_cpu = Cells
    /\ InitDerived(0)
    /\ InitControl

NextBuild ==
    \/ collide_and_propagate_abort
    \/ collide_and_propagate

SpecBuild == InitBuild /\ [][NextBuild]_vars

----------------------------------------------------------------------------
(* The driver: steps, body forces and post-processing in any order *)

\* driver specification: a fluid lattice, the particles in the first or the last cell
InitDrive ==
    /\ model \in Models
    /\ ndebug = FALSE
    /\ dim_x \in 1..MaxSmallDim
    /\ dim_y \in {1, 2}
    /\ r_coarse = 0
    /\ bf_dir \in {"x", "y"}
    /\ cell_type_cpu = [c \in Cells |-> "FLUID"]
    /\ \E c0 \in {0, num_cells - 1}, D \in SomePatterns :
          node_state_cpu = CellState(c0, D)
    /\ node_state_tmp_cpu = {}
    /\ node_state_out_cpu = node_state_cpu
    /\ rnd_cpu = Cells
    /\ InitDerived(0)
    /\ InitControl

NextDrive ==
    \/ collide_and_propagate_abort
    \/ collide_and_propagate
    \/ apply_body_force_call
    \/ apply_body_force_iterate
    \/ post_process

SpecDrive == InitDrive /\ [][NextDrive]_vars

----------------------------------------------------------------------------
(* Properties *)

AllFluid == \A cell \in Cells : cell_type_cpu[cell] = "FLUID"

\* node_state[] of the cell after the gather of the last step
InState(cell) == Gather(pre_state, cell)

\* the momentum <<2 * x, y / h>> of a local array
Momentum(p) ==
    <<SumTo([dir \in Dirs |-> p[dir] * LATTICE_VEC_X(dir)], NUM_DIR),
      SumTo([dir \in Dirs |-> p[dir] * LATTICE_VEC_Y(dir)], NUM_DIR)>>

\* the number of particles of a local array
Count(p) == Cardinality(Occupied(p))

\* the bits a buffer of the lattice holds
BufferBits == 0 .. (num_cells * 8 - 1)

StepDone == last_op = "collide_and_propagate" /\ pc = "idle"

\* C1: on a lattice of FLUID cells only, the node state after a step holds as many
\* occupied bits as the node state before it.
C1_StepConservesMass ==
    (StepDone /\ AllFluid) => Cardinality(node_state_cpu) = Cardinality(pre_state)

\* a second step of an all-fluid lattice in which a collision changed a pattern of
\* three or more particles
C1_Witness ==
    /\ StepDone
    /\ AllFluid
    /\ steps = 2
    /\ \E cell \in Cells :
          /\ Count(InState(cell)) >= 2
          /\ OutState(node_state_cpu, cell) # InState(cell)

\* C2: for every FLUID cell, the pattern the step writes has the momentum and the
\* particle count of the pattern the cell gathered, whatever its random bit.
C2_CollisionConservesMomentum ==
    StepDone =>
        \A cell \in Cells :
            cell_type_cpu[cell] = "FLUID" =>
                /\ Momentum(OutState(node_state_cpu, cell)) = Momentum(InState(cell))
                /\ Count(OutState(node_state_cpu, cell)) = Count(InState(cell))

\* a fluid cell with random bit 1 whose gathered pattern was changed by the collision
C2_Witness ==
    /\ StepDone
    /\ \E cell \in Cells :
          /\ cell_type_cpu[cell] = "FLUID"
          /\ cell \in rnd_cpu
          /\ model \in FHPModels
          /\ Count(InState(cell)) = 2
          /\ OutState(node_state_cpu, cell) # InState(cell)

\* C8: for valid dimensions, every bit the gather reads, for every cell and every
\* direction, lies inside the node-state buffer.
C8_GatherInBounds ==
    ~InvalidDimY =>
        \A cell \in Cells : \A dir \in Dirs : SourceBit(cell, dir) \in BufferBits

\* a step in which the south-west corner cell of an FHP lattice pulled a particle
\* from the north-east corner cell, across two edges
C8_Witness ==
    /\ StepDone
    /\ model \in FHPModels
    /\ dim_x >= 2
    /\ \E dir \in Dirs :
          /\ SourceBit(0, dir) = dir + (num_cells - 1) * 8
          /\ SourceBit(0, dir) \in pre_state

\* the pattern with the bits permuted by MIR_DIR_X
BF_X(p) == [d \in Dirs |-> p[MIR_DIR_X(d)]]

\* the pattern with the bits permuted by MIR_DIR_Y
BF_Y(p) == [d \in Dirs |-> p[MIR_DIR_Y(d)]]

\* C9: a SOLID_SLIP cell on a N or S edge and on an E or W edge is written the
\* gathered pattern with both reflections applied; on N or S only, the pattern
\* reflected by BF_X; on E or W only, by BF_Y; on no edge, the gathered pattern.
C9_SlipReflection ==
    StepDone =>
        \A cell \in Cells :
            cell_type_cpu[cell] = "SOLID_SLIP" =>
                LET ns == on_northern_boundary(cell) \/ on_southern_boundary(cell)
                    ew == on_eastern_boundary(cell) \/ on_western_boundary(cell)
                    in == InState(cell)
                IN  OutState(node_state_cpu, cell) =
                        IF ns /\ ew THEN BF_Y(BF_X(in))
                        ELSE IF ns THEN BF_X(in)
                        ELSE IF ew THEN BF_Y(in)
                        ELSE in

----------------------------------------------------------------------------

\* the number of particles of the cell in the buffer B
CellCount(B, cell) == Cardinality(B \cap BlockBits(cell))

\* the momentum <<2 * x, y / h>> of the lattice in the buffer B
LatticeMomentum(B) ==
    <<SumTo([cell \in Cells |-> CellMomentum(B, cell)[1]], num_cells),
      SumTo([cell \in Cells |-> CellMomentum(B, cell)[2]], num_cells)>>

ForceDone == last_op = "apply_body_force" /\ pc = "idle"

\* C3: during and after apply_body_force every cell holds as many particles as at
\* the call.
C3_ForceConservesMass ==
    (pc = "bf" \/ ForceDone) =>
        \A cell \in Cells : CellCount(node_state_cpu, cell) = CellCount(pre_state, cell)

\* a call that has reversed two pairs
C3_Witness ==
    /\ ForceDone
    /\ reverted_particles >= 2
    /\ node_state_cpu # pre_state

\* C4: the number of reversed pairs never exceeds forcing.
C4_AtMostForcing == reverted_particles <= forcing

\* C5: after apply_body_force the lattice momentum along the force axis is not
\* smaller than at the call, it is larger if a pair was reversed, and the momentum
\* along the other axis is the same.
C5_MomentumGrows ==
    ForceDone =>
        LET before == LatticeMomentum(pre_state)
            after == LatticeMomentum(node_state_cpu)
            axis == IF bf_dir = "x" THEN 1 ELSE 2
            other == IF bf_dir = "x" THEN 2 ELSE 1
        IN  /\ after[axis] >= before[axis]
            /\ reverted_particles >= 1 => after[axis] > before[axis]
            /\ after[other] = before[other]

\* C6: apply_body_force takes at most 2 * N samples; the loop goes on only while the
\* counter is below forcing and fewer than 2 * N samples were taken, and another
\* sample can then be taken; it has returned with the counter at forcing or above,
\* or after exactly 2 * N samples.
C6_ForceTerminates ==
    /\ it <= 2 * num_cells
    /\ (pc = "bf" /\ it > 0) => (reverted_particles < forcing /\ it < 2 * num_cells)
    /\ pc = "bf" => ENABLED apply_body_force_iterate
    /\ ForceDone => (reverted_particles >= forcing \/ it = 2 * num_cells)
    /\ ForceDone => it >= 1

\* a call on a lattice without a fluid cell that has returned after 2 * N samples
\* with no pair reversed
C6_Witness ==
    /\ ForceDone
    /\ FluidCells = {}
    /\ reverted_particles < forcing
    /\ it = 2 * num_cells

----------------------------------------------------------------------------

\* the cells whose bits were written in the parallel region
WrittenCells == {w[2] : w \in writes}

\* C7: inside the parallel region the current buffer is not written; every write
\* into the scratch buffer goes to one of the NUM_DIR bits of the cell the worker
\* handles; no cell is handled twice and, when all workers have finished, every
\* cell was handled; the scratch buffer then holds the image of the current buffer
\* under the kernel, whatever the order of the workers.
C7_RaceFree ==
    pc = "par" =>
        /\ node_state_cpu = pre_state
        /\ \A w \in writes : w[1] \in (w[2] * 8) .. (w[2] * 8 + NUM_DIR - 1)
        /\ WrittenCells \subseteq Cells
        /\ Cardinality(WrittenCells) = SumTo(done, num_blocks)
        /\ (\A block \in Blocks : BlockDone(block)) =>
              /\ WrittenCells = Cells
              /\ node_state_tmp_cpu = Kernel(pre_state, {})

\* two workers are both half way through their blocks and particles were written
C7_Witness ==
    /\ pc = "par"
    /\ node_state_tmp_cpu # {}
    /\ \E b1, b2 \in Blocks :
          /\ b1 # b2
          /\ done[b1] > 0 /\ ~BlockDone(b1)
          /\ done[b2] > 0 /\ ~BlockDone(b2)

----------------------------------------------------------------------------

\* C10: post_process and get_mean_velocity leave the current, the scratch and the
\* output node-state buffer, the cell types and the random pool as they are;
\* get_mean_velocity leaves the derived arrays as they are, too.
C10_PostFrame ==
    [][/\ (posts' = posts + 1 \/ last_op' = "get_mean_velocity") =>
              UNCHANGED <<node_state_cpu, node_state_tmp_cpu, node_state_out_cpu,
                          cell_type_cpu, rnd_cpu>>
       /\ (posts' = posts /\ last_op' = "get_mean_velocity") =>
              UNCHANGED derived_vars]_vars

\* both operations have run on a lattice with particles: the derived arrays hold
\* the computed values and a mean velocity was returned
C10_Witness ==
    /\ node_state_cpu # {}
    /\ cell_density_cpu = CellPostDensity(node_state_out_cpu)
    /\ \E cell \in Cells : cell_density_cpu[cell] > 1
    /\ \E C \in CoarseCells : mean_density_cpu[C][1] > 1
    /\ mean_velocity[3] > 0

\* C11: a call of post_process that follows another one, with no step and no body
\* force in between, leaves density, momentum, mean_density and mean_momentum as the
\* earlier call left them.
C11_PostIdempotent ==
    [][(posts >= 1 /\ posts' = posts + 1) => UNCHANGED derived_vars]_vars

\* post_process has returned for the second time on a lattice with particles
C11_Witness ==
    /\ last_op = "post_process"
    /\ posts = 2
    /\ \E cell \in Cells : cell_density_cpu[cell] >= 1
    /\ \E C \in CoarseCells : mean_density_cpu[C][1] >= 1

PostDone == last_op = "post_process" /\ pc = "idle"

\* the quotient <<a, n>> has the value v
QuotientIs(a, n, v) == n # 0 /\ a = v * n

\* C12: with radius 0, after post_process the mean density and the mean momentum of
\* every cell are the density and the momentum of that cell.
C12_RadiusZeroIdentity ==
    (PostDone /\ r_coarse = 0) =>
        \A cell \in Cells :
            /\ cell \in CoarseCells
            /\ QuotientIs(mean_density_cpu[cell][1], mean_density_cpu[cell][2],
                          cell_density_cpu[cell])
            /\ QuotientIs(mean_momentum_cpu[cell][1], mean_momentum_cpu[cell][3],
                          cell_momentum_cpu[cell][1])
            /\ QuotientIs(mean_momentum_cpu[cell][2], mean_momentum_cpu[cell][3],
                          cell_momentum_cpu[cell][2])

\* the fine cells that contribute to the coarse cell
Window(coarse_cell) ==
    {NeighborIdx(coarse_cell, x, y) :
        <<x, y>> \in {w \in (0 .. 2 * r_coarse) \X (0 .. 2 * r_coarse) :
                         NeighborValid(coarse_cell, w[1], w[2])}}

\* the fine cells that contribute to some coarse cell
Covered == UNION {Window(C) : C \in CoarseCells}

\* C13: the bottom-left fine cell of coarse cell (C_x, C_y) is at
\* (C_x * (2r+1), C_y * (2r+1)); the windows of two distinct coarse cells share no
\* fine cell; and after post_process the sum over the coarse cells of mean density
\* times the number of contributing cells is the sum of the density over the fine
\* cells that fall in some window.
C13_WindowsTile ==
    PostDone =>
        /\ \A C \in CoarseCells :
              CornerCell(C) = (C % coarse_dim_x) * (2 * r_coarse + 1)
                                + (C \div coarse_dim_x) * (2 * r_coarse + 1) * dim_x
        /\ \A C1, C2 \in CoarseCells : C1 # C2 => Window(C1) \cap Window(C2) = {}
        /\ SumTo([C \in CoarseCells |-> mean_density_cpu[C][1]], num_coarse_cells)
              = SumTo([cell \in Cells |->
                          IF cell \in Covered THEN cell_density_cpu[cell] ELSE 0],
                      num_cells)

\* the (2r+1) x (2r+1) window of the coarse cell lies inside the grid
FullWindow(coarse_cell) ==
    /\ (CornerCell(coarse_cell) % dim_x) + 2 * r_coarse < dim_x
    /\ \A x, y \in 0 .. 2 * r_coarse :
          NeighborIdx(coarse_cell, x, y) \in Cells

\* the sum of val over the (2r+1) x (2r+1) window of the coarse cell
FullWindowSum(val, coarse_cell) ==
    SumTo([y \in 0 .. 2 * r_coarse |->
              SumTo([x \in 0 .. 2 * r_coarse |-> val[NeighborIdx(coarse_cell, x, y)]],
                    2 * r_coarse + 1)],
          2 * r_coarse + 1)

\* C14: for a coarse cell whose (2r+1) x (2r+1) window lies inside the grid,
\* post_process stores the sums of density and momentum over the (2r+1)^2 cells of
\* the window, divided by (2r+1)^2.
C14_FullWindowAverage ==
    PostDone =>
        \A C \in CoarseCells :
            FullWindow(C) =>
                LET n == (2 * r_coarse + 1) * (2 * r_coarse + 1)
                IN  /\ mean_density_cpu[C] = <<FullWindowSum(cell_density_cpu, C), n>>
                    /\ mean_momentum_cpu[C] =
                          <<FullWindowSum([c \in Cells |-> cell_momentum_cpu[c][1]], C),
                            FullWindowSum([c \in Cells |-> cell_momentum_cpu[c][2]], C),
                            n>>

\* the fluid cells whose density is above the threshold: they contribute to the sums
ContributingCells == {n \in FluidCells : cell_density_cpu[n] > 0}

\* C15: get_mean_velocity, called after post_process, divides the sums by the number
\* of fluid cells with a density above the threshold; fluid cells without particles
\* and solid cells are not counted.
C15_MeanVelocityDivisor ==
    (last_op = "get_mean_velocity" /\ posts >= 1) =>
        mean_velocity[3] = Cardinality(ContributingCells)

\* C16: on an FHP lattice with odd DIM_Y no step is ever performed: the scratch
\* buffer is never written and the buffers are never exchanged; on an HPP lattice
\* and on an FHP lattice with even DIM_Y the check never ends the process.
C16_OddDimYFatal ==
    /\ InvalidDimY =>
          /\ steps = 0
          /\ last_op # "collide_and_propagate"
          /\ node_state_tmp_cpu = {}
          /\ node_state_cpu = pre_state
    /\ ~InvalidDimY => pc # "aborted"

\* the node state after k steps from the node state S
RECURSIVE StepImage(_, _)
StepImage(S, k) == IF k = 0 THEN S ELSE Kernel(StepImage(S, k - 1), {})

\* C17: the buffers are not exchanged while a worker of the step is running; when
\* collide_and_propagate has returned, the current buffer holds the image of the
\* previous node state under the kernel and the scratch buffer holds the previous
\* node state; after k steps the current buffer holds the k-fold image of the
\* initial node state.
C17_PingPong ==
    /\ pc = "par" => node_state_cpu = pre_state
    /\ StepDone =>
          /\ node_state_cpu = Kernel(pre_state, {})
          /\ node_state_tmp_cpu = pre_state
          /\ node_state_cpu = StepImage(init_state, steps)

\* the second step of a lattice of two blocks has returned and has moved particles
C17_Witness ==
    /\ StepDone
    /\ steps = 2
    /\ num_blocks = 2
    /\ \A block \in Blocks : BlockDone(block)
    /\ node_state_cpu # node_state_tmp_cpu
    /\ node_state_cpu # init_state

\* the pattern of the cell in the buffer B
PatternOf(B, cell) == [dir \in Dirs |-> IF dir + cell * STRIDE \in B THEN 1 ELSE 0]

\* density and momentum hold the particle count and the momentum of every cell of
\* the buffer B
DerivedReflect(B) ==
    \A cell \in Cells :
        /\ cell_density_cpu[cell] = Count(PatternOf(B, cell))
        /\ cell_momentum_cpu[cell] = Momentum(PatternOf(B, cell))

\* C18 as stated: after steps and body forces followed by post_process, density and
\* momentum of every cell are the particle count and the momentum of the cell in
\* the current node state.
C18_PostReflectsCurrent == PostDone => DerivedReflect(node_state_cpu)

\* C18 amended: after steps and body forces followed by post_process, density and
\* momentum of every cell are the particle count and the momentum of the cell in
\* the output buffer, which is still the node state of the construction.
C18_PostReflectsOutput ==
    PostDone => (DerivedReflect(node_state_out_cpu) /\ node_state_out_cpu = init_state)

\* post_process has returned after a step and a body force that changed the node
\* state: the derived fields are not those of the current node state
C18_Witness ==
    /\ PostDone
    /\ steps >= 1
    /\ calls >= 1
    /\ reverted_particles >= 1
    /\ \E cell \in Cells : cell_density_cpu[cell] >= 1
    /\ ~DerivedReflect(node_state_cpu)

\* the direction pairs apply_body_force may reverse
ForcePairs ==
    IF model = "HPP"
    THEN IF bf_dir = "x" THEN {{0, 2}} ELSE {{1, 3}}
    ELSE IF bf_dir = "x" THEN {{0, 3}} ELSE {{1, 5}, {2, 4}}

\* the directions of the cell whose bit differs between the buffers A and B
ChangedDirs(A, B, cell) ==
    {dir \in 0 .. (STRIDE - 1) :
        (dir + cell * STRIDE \in A) # (dir + cell * STRIDE \in B)}

\* the bits that differ between the buffers A and B
ChangedBits(A, B) == (A \ B) \cup (B \ A)

\* C19: every step of apply_body_force, from the call to the return, changes node
\* bits in fluid cells only, in a changed cell both bits of each reversed pair of
\* the force axis and no other bit, and leaves the cell types, the random pool, the
\* scratch and the output buffer and the derived fields as they are.
C19_ForceFrame ==
    [][(pc = "bf" \/ pc' = "bf") =>
          /\ UNCHANGED <<cell_type_cpu, rnd_cpu, node_state_tmp_cpu, node_state_out_cpu,
                         derived_vars>>
          /\ \A bit \in ChangedBits(node_state_cpu, node_state_cpu') :
                /\ cell_type_cpu[bit \div STRIDE] = "FLUID"
                /\ \E pair \in ForcePairs :
                      /\ bit % STRIDE \in pair
                      /\ \A dir \in pair :
                            dir + (bit \div STRIDE) * STRIDE
                                \in ChangedBits(node_state_cpu, node_state_cpu')]_vars

\* apply_body_force has returned on a lattice with a solid cell that holds
\* particles, after reversing a pair in a fluid cell that holds a rest particle
C19_Witness ==
    /\ ForceDone
    /\ reverted_particles >= 1
    /\ \E cell \in Cells :
          /\ cell_type_cpu[cell] = "FLUID"
          /\ ChangedDirs(pre_state, node_state_cpu, cell) # {}
          /\ 6 + cell * STRIDE \in node_state_cpu
    /\ \E cell \in Cells :
          /\ cell_type_cpu[cell] # "FLUID"
          /\ CellCount(node_state_cpu, cell) >= 2

----------------------------------------------------------------------------

\* the set of node patterns of the model
Patterns == [Dirs -> {0, 1}]

\* the number of particles of the pattern
PatternCount(p) == Cardinality({d \in Dirs : p[d] = 1})

\* C20: after a step, a SOLID_NO_SLIP cell holds bit d exactly when bit INV_DIR(d)
\* of its gathered pattern was set, with as many particles as were gathered, and
\* bounce-back applied twice to any pattern gives the pattern back.
C20_BounceBackReverses ==
    StepDone =>
        \A cell \in Cells :
            cell_type_cpu[cell] = "SOLID_NO_SLIP" =>
                /\ \A d \in Dirs :
                      (d + cell * STRIDE \in node_state_cpu) = (InState(cell)[INV_DIR(d)] = 1)
                /\ CellCount(node_state_cpu, cell) = PatternCount(InState(cell))
                /\ \A p \in Patterns : bounce_back(bounce_back(p, p), p) = p

\* a step has turned around two or more particles gathered by a SOLID_NO_SLIP cell on
\* the boundary of the lattice
C20_Witness ==
    /\ StepDone
    /\ \E cell \in Cells :
          /\ cell_type_cpu[cell] = "SOLID_NO_SLIP"
          /\ on_northern_boundary(cell) \/ on_eastern_boundary(cell)
          /\ PatternCount(InState(cell)) >= 2
          /\ PatternOf(node_state_cpu, cell) # InState(cell)

----------------------------------------------------------------------------

\* C21: the random pool has been filled once for every step taken, the fill of the
\* constructor serving the first step, so that each step reads bits drawn after the
\* step before it.
C21_PoolRefreshed == StepDone => rnd_fills >= steps

\* no operation writes the random pool
PoolReadOnly == [][rnd_cpu' = rnd_cpu]_vars

----------------------------------------------------------------------------

RedDone == last_op = "get_mean_velocity" /\ pc = "idle"

\* C22: whatever the number of threads and their interleaving, get_mean_velocity
\* returns with the divisor equal to the number of FLUID cells: no increment of the
\* counter is lost.
C22_NoLostIncrement == RedDone => mean_velocity[3] = Cardinality(FluidCells)

\* the divisor of the loop run by threads is one of the values of Counters
CountersCoverThreads == RedDone => mean_velocity[3] \in Counters

----------------------------------------------------------------------------

\* the fine cells read by mean_post_process for the coarse cell
WindowReads(coarse_cell) ==
    {NeighborIdx(coarse_cell, xy[1], xy[2]) :
        xy \in {p \in (0 .. 2 * r_coarse) \X (0 .. 2 * r_coarse) :
                  NeighborValid(coarse_cell, p[1], p[2])}}

\* after post_process every coarse cell has a divisor of one or more and has read
\* fine cells of the lattice only
WindowsDefined ==
    PostDone =>
        \A C \in CoarseCells :
            /\ n_exist_neighbors(C) >= 1
            /\ mean_density_cpu[C][2] >= 1
            /\ mean_momentum_cpu[C][3] >= 1
            /\ WindowReads(C) \subseteq Cells

\* C23: every coarse cell averages over one or more fine cells of the lattice, and
\* get_mean_velocity divides by a count of one or more, also on a lattice without
\* a FLUID cell.
C23_AveragesDefined ==
    /\ WindowsDefined
    /\ last_op = "get_mean_velocity" => mean_velocity[3] >= 1

\* on a lattice with a FLUID cell the divisor of get_mean_velocity is one or more
DivisorDefinedWithFluid ==
    (last_op = "get_mean_velocity" /\ FluidCells # {}) => mean_velocity[3] >= 1

====
